---- MODULE Spec2Model ----
(***************************************************************************)
(* checkmate-lsp: the plugin orchestration of the language server.         *)
(*                                                                         *)
(* Strings are sequences of atoms: an atom is either a delimiter the code  *)
(* looks for or a chunk of printable ASCII characters that holds none and  *)
(* is as long as it can be, so that splitting, concatenation, replacement  *)
(* and comparison of strings are computed on the sequence.  The empty      *)
(* string is << >>.  The delimiters are " " and "," everywhere and, in the *)
(* uri of a saved document, also "/", ".", "?", "#", "@", ":" inside the   *)
(* authority, and the percent escapes "%XX".  A byte that is no printable  *)
(* ASCII character is an atom of its own, written as a backslash, "x" and  *)
(* two lower case hexadecimal digits; a backslash of the text itself is    *)
(* written as two backslashes, so that no text is the atom of a byte.      *)
(*                                                                         *)
(* The handlers of the server (initialize, initialized, did_save) are      *)
(* futures that tower-lsp polls on one thread: an action is the code a     *)
(* handler runs from one await to the next.                                *)
(***************************************************************************)
EXTENDS Integers, Sequences, FiniteSets, TLC

VARIABLES
    phase,              \* how far the session is: created, initialize_done,
                        \* initializing, running, crashed
    holder,             \* the handler that runs between two awaits (Nobody: none)
    fs,                 \* the machine: the files that exist, the commands that start
    build,              \* how the binary was compiled: overflow checks on or off
    debug,              \* server_settings.debug: the --debug flag
    root_uri,           \* client_settings.settings["root_uri"] (None before initialize)
    configuration,      \* initialized(): editor_settings, the client's answer
    editor_plugins,     \* initialized(): the parsed client configuration
    pending,            \* initialized(): ids of editor_plugins whose iteration
                        \* is not over
    probed,             \* initialized(): the plugin found installed, not inserted yet
    installed_plugins,  \* server_settings.installed_plugins
    saves,              \* number of save passes started
    save_uri,           \* did_save(), per pass: the uri of the document saved
    snapshot,           \* did_save(), per pass: the clone of installed_plugins
    todo,               \* did_save(), per pass: ids of the clone not yet visited
    position,           \* did_save(), per pass: where the pass is suspended
    running,            \* run(), per pass: the plugin, and the file reports left
    diagnostics,        \* did_save(), per pass: its local vector of diagnostics
    invocations,        \* the subprocesses started by the pass that started last
    publications,       \* the publish_diagnostics calls of that pass
    published,          \* client side: uri -> the diagnostics in effect
    report_message,     \* run(): the message of a report that is being converted
    built_item          \* run(): the Diagnostic built from report_message

vars == << phase, holder, fs, build, debug, root_uri, configuration, editor_plugins,
           pending, probed, installed_plugins, saves, save_uri, snapshot, todo, position,
           running, diagnostics, invocations, publications, published,
           report_message, built_item >>

\* The machine and the process.
env_vars == << fs, build, debug >>

\* What initialize and initialized write.
settings_vars == << root_uri, configuration, editor_plugins, pending, probed,
                   installed_plugins >>

\* What the save passes write, apart from the client's view.
pass_vars == << saves, save_uri, snapshot, todo, position, running, diagnostics,
               invocations, publications >>

\* The variables of the conversion of one message of a report.
message_vars == << report_message, built_item >>

\* Option<T>
None == [some |-> FALSE]
Some(x) == [some |-> TRUE, v |-> x]

\* An empty HashMap / DashMap.
EmptyMap == [x \in {} |-> None]

\* Number of save events a behaviour may hold; the passes may all be in
\* flight at once.
MaxSaves == 2

-----------------------------------------------------------------------------
(* Strings                                                                 *)

EmptyStr == << >>

Str(a) == << a >>

RECURSIVE Split(_, _)
\* str::split(sep): the pieces between the separators, empty pieces included.
Split(s, sep) ==
    IF \A i \in 1..Len(s) : s[i] # sep
    THEN << s >>
    ELSE LET i == CHOOSE k \in 1..Len(s) :
                    s[k] = sep /\ \A j \in 1..(k - 1) : s[j] # sep
         IN  << SubSeq(s, 1, i - 1) >> \o Split(SubSeq(s, i + 1, Len(s)), sep)

\* str::replace(pat, ""): every occurrence of the atom removed.
RemoveAll(s, pat) == SelectSeq(s, LAMBDA a : a # pat)

FileScheme == "file://"

\* The index of the first atom of s, from index from on, that is in set, or
\* Len(s) + 1 when there is none.
Find(s, from, set) ==
    LET hits == {i \in from..Len(s) : s[i] \in set}
    IN  IF hits = {} THEN Len(s) + 1
        ELSE CHOOSE i \in hits : \A j \in hits : i <= j

\* The i-th character of an atom.
Char(a, i) == SubSeq(a, i, i)

LowerHex == "0123456789abcdef"
UpperHex == "0123456789ABCDEF"

IsHexDigit(c) == \E v \in 1..16 : c \in {Char(LowerHex, v), Char(UpperHex, v)}

HexValue(c) ==
    (CHOOSE v \in 1..16 : c \in {Char(LowerHex, v), Char(UpperHex, v)}) - 1

\* The atom of a byte that is no printable ASCII character.
RawByte(n) ==
    "\\x" \o Char(LowerHex, (n \div 16) + 1) \o Char(LowerHex, (n % 16) + 1)

IsRawByte(a) ==
    /\ Len(a) = 4
    /\ SubSeq(a, 1, 2) = "\\x"
    /\ IsHexDigit(Char(a, 3))
    /\ IsHexDigit(Char(a, 4))

ByteValue(a) == 16 * HexValue(Char(a, 3)) + HexValue(Char(a, 4))

\* The atom of byte n: the character it is in ASCII when it is a printable
\* one, 0x20 to 0x5f and 0x61 to 0x7e, the backslash (0x5c) written twice.
\* (A string of the model cannot hold 0x60, the grave accent: it is written
\* as a byte.)
Byte(n) ==
    LET low  == " !\"#$%&'()*+,-./0123456789:;<=>?@ABCDEFGHIJKLMNOPQRSTUVWXYZ[\\]^_"
        high == "abcdefghijklmnopqrstuvwxyz{|}~"
    IN  IF n = 92 THEN "\\\\"
        ELSE IF n \in 32..95 THEN Char(low, n - 31)
        ELSE IF n \in 97..126 THEN Char(high, n - 96)
        ELSE RawByte(n)

\* A byte that starts no UTF-8 sequence (0xff).
NotUtf8 == RawByte(255)

RECURSIVE IsUtf8(_)
\* The bytes are well-formed UTF-8.  A chunk is ASCII text.  width is the
\* number of bytes of the sequence that the lead byte starts (0: it starts
\* none), second the values its second byte may have.
IsUtf8(bytes) ==
    IF bytes = << >> THEN TRUE
    ELSE IF ~IsRawByte(bytes[1]) THEN IsUtf8(Tail(bytes))
    ELSE LET b      == ByteValue(bytes[1])
             width  == IF b < 128 THEN 1
                       ELSE IF b \in 194..223 THEN 2
                       ELSE IF b \in 224..239 THEN 3
                       ELSE IF b \in 240..244 THEN 4
                       ELSE 0
             second == CASE b = 224 -> 160..191
                         [] b = 237 -> 128..159
                         [] b = 240 -> 144..191
                         [] b = 244 -> 128..143
                         [] OTHER   -> 128..191
         IN  /\ width # 0
             /\ Len(bytes) >= width
             /\ \A i \in 2..width :
                   /\ IsRawByte(bytes[i])
                   /\ ByteValue(bytes[i]) \in (IF i = 2 THEN second ELSE 128..191)
             /\ IsUtf8(SubSeq(bytes, width + 1, Len(bytes)))

\* str::from_utf8, OsStr::to_str
from_utf8(bytes) == IF IsUtf8(bytes) THEN Some(bytes) ELSE None

-----------------------------------------------------------------------------
(* plugins.rs                                                              *)

PluginSettingDefault == [cmd |-> EmptyStr, args |-> << >>, filetypes |-> << >>]

AvailablePlugins == {"phpcs", "phpstan", "eslint", "stylelint"}

-----------------------------------------------------------------------------
(* JSON values (serde_json::Value): of the client configuration and of the  *)
(* documents the tools print.  The members of an object are a function from *)
(* their names; a string holds its atoms; a number holds an integer below   *)
(* 2^31.                                                                   *)

JNull == [t |-> "null"]
JBool(b) == [t |-> "bool", b |-> b]
JNum(n) == [t |-> "num", n |-> n]
JStr(s) == [t |-> "str", s |-> s]
JArr(a) == [t |-> "arr", a |-> a]
JObj(f) == [t |-> "obj", o |-> f]

IsObj(j) == j.t = "obj"

\* obj.get(key).unwrap_or(&Value::String("")).as_str().unwrap_or("")
StrField(obj, key) ==
    IF key \in DOMAIN obj /\ obj[key].t = "str" THEN obj[key].s ELSE EmptyStr

\* The parsing with an empty string giving no token at all.
ParsePluginValue_NoEmptyToken(value) ==
    IF ~IsObj(value)
    THEN PluginSettingDefault
    ELSE [cmd       |-> StrField(value.o, "cmd"),
          args      |-> IF StrField(value.o, "args") = EmptyStr THEN << >>
                        ELSE Split(StrField(value.o, "args"), " "),
          filetypes |-> IF StrField(value.o, "filetypes") = EmptyStr THEN << >>
                        ELSE Split(StrField(value.o, "filetypes"), ",")]

\* The PluginSetting that one "<id>": <value> member yields.
ParsePluginValue(value) ==
    IF ~IsObj(value)
    THEN PluginSettingDefault
    ELSE [cmd       |-> StrField(value.o, "cmd"),
          args      |-> Split(StrField(value.o, "args"), " "),
          filetypes |-> Split(StrField(value.o, "filetypes"), ",")]

RECURSIVE parse_client_editor_settings(_)
\* config is the Vec<Value> the client answered with; later items overwrite
\* earlier ones under the same id (HashMap::insert).
parse_client_editor_settings(config) ==
    IF config = << >>
    THEN EmptyMap
    ELSE LET item == config[Len(config)]
             rest == parse_client_editor_settings(SubSeq(config, 1, Len(config) - 1))
         IN  IF ~IsObj(item)
             THEN rest
             ELSE [id \in (DOMAIN rest) \cup (DOMAIN item.o) |->
                      IF id \in DOMAIN item.o
                      THEN ParsePluginValue(item.o[id])
                      ELSE rest[id]]

-----------------------------------------------------------------------------
(* Discovery                                                               *)

LocalBinSuffix(id) ==
    CASE id = "phpcs"     -> "/vendor/bin/phpcs"
      [] id = "phpstan"   -> "/vendor/bin/phpstan"
      [] id = "eslint"    -> "/node_modules/.bin/eslint"
      [] id = "stylelint" -> "/node_modules/.bin/stylelint"

DefaultArgs(id) ==
    CASE id = "phpcs"     -> << Str("--report=json") >>
      [] id = "phpstan"   -> << Str("analyse"), Str("--error-format=json") >>
      [] id = "eslint"    -> << Str("-f=json") >>
      [] id = "stylelint" -> << Str("-f=json") >>

DefaultFiletypes(id) ==
    CASE id = "phpcs"     -> << Str("php") >>
      [] id = "phpstan"   -> << Str("php") >>
      [] id = "eslint"    -> << Str("js"), Str("tsx"), Str("vue"), Str("svelte") >>
      [] id = "stylelint" -> << Str("css"), Str("less"), Str("sass") >>

\* Only phpcs and phpstan fall back to the bare tool name.
TriesGlobal(id) == id \in {"phpcs", "phpstan"}

\* metadata(path).is_ok()
Exists(machine, path) == path \in machine.files

\* Command::new(cmd).spawn() / .output() starts a process
Spawns(machine, cmd) == cmd \in machine.commands

\* Plugin::is_installed: None, or the default PluginSetting.
is_installed(id, settings_root_uri, files) ==
    LET project_root == RemoveAll(settings_root_uri, FileScheme)
        project_bin  == project_root \o Str(LocalBinSuffix(id))
    IN  IF Exists(files, project_bin)
        THEN Some([cmd |-> project_bin, args |-> DefaultArgs(id),
                   filetypes |-> DefaultFiletypes(id)])
        ELSE IF TriesGlobal(id) /\ Spawns(files, Str(id))
             THEN Some([cmd |-> Str(id), args |-> DefaultArgs(id),
                        filetypes |-> DefaultFiletypes(id)])
             ELSE None

-----------------------------------------------------------------------------
(* Settings resolution (Lsp::initialized, the body of its loop)            *)

\* The args merged the way the filetypes are meant to be: replaced.
MergeArgs_Replace(settings, default_plugin_setting) ==
    IF settings.args # << >> THEN settings.args ELSE default_plugin_setting.args

MergeArgs(settings, default_plugin_setting) ==
    default_plugin_setting.args \o settings.args

MergeSettings(settings, default_plugin_setting) ==
    [cmd       |-> IF settings.cmd # EmptyStr THEN settings.cmd
                   ELSE default_plugin_setting.cmd,
     args      |-> MergeArgs(settings, default_plugin_setting),
     filetypes |-> IF settings.filetypes # << >>
                   THEN default_plugin_setting.filetypes \o settings.filetypes
                   ELSE default_plugin_setting.filetypes]

\* The map a function f becomes once key k holds value v (DashMap::insert).
Insert(f, k, v) == [x \in (DOMAIN f) \cup {k} |-> IF x = k THEN v ELSE f[x]]

-----------------------------------------------------------------------------
(* Document uris.  A uri is the serialised Url: the scheme atom, which ends *)
(* in "//" when an authority follows ("file://", "http://", "untitled:"),  *)
(* the atoms of the authority, the atoms of the path, and what follows the  *)
(* path from its "?" or "#" on.  The text "file://" is one atom wherever it *)
(* occurs.                                                                 *)

\* An authority follows the scheme.
HasAuthority(uri) ==
    /\ Len(uri[1]) >= 2
    /\ SubSeq(uri[1], Len(uri[1]) - 1, Len(uri[1])) = "//"

\* Where the path starts: after the authority, or after the scheme.
PathStart(uri) == IF HasAuthority(uri) THEN Find(uri, 2, {"/", "?", "#"}) ELSE 2

\* Url::path(): it ends at the query, at the fragment, or with the uri.
Path(uri) == SubSeq(uri, PathStart(uri), Find(uri, 2, {"?", "#"}) - 1)

\* Url::host(): the host of the authority [userinfo "@"] host [":" port];
\* << >> when the uri has none.  An IPv6 address is in brackets and holds
\* colons of its own.
Host(uri) ==
    IF ~HasAuthority(uri) THEN << >>
    ELSE LET authority == SubSeq(uri, 2, PathStart(uri) - 1)
             ats       == {i \in 1..Len(authority) : authority[i] = "@"}
             from      == IF ats = {} THEN 1
                          ELSE (CHOOSE i \in ats : \A j \in ats : j <= i) + 1
             closes    == {i \in from..Len(authority) :
                              Char(authority[i], Len(authority[i])) = "]"}
         IN  IF from <= Len(authority) /\ Char(authority[from], 1) = "["
             THEN SubSeq(authority, from,
                         IF closes = {} THEN Len(authority)
                         ELSE CHOOSE i \in closes : \A j \in closes : i <= j)
             ELSE SubSeq(authority, from, Find(authority, from, {":"}) - 1)

\* percent_decode: every escape, a "%" and two hex digits, becomes the byte
\* it names.
PercentDecode(a) ==
    IF /\ Len(a) = 3
       /\ Char(a, 1) = "%"
       /\ IsHexDigit(Char(a, 2))
       /\ IsHexDigit(Char(a, 3))
    THEN Byte(16 * HexValue(Char(a, 2)) + HexValue(Char(a, 3)))
    ELSE a

\* The atom is text between the delimiters of a file path.
IsChunk(a) == a \notin {"/", ".", " ", ","} /\ ~IsRawByte(a)

RECURSIVE Merge(_)
\* The atoms of the string that these pieces make up: adjacent chunks are one
\* chunk.
Merge(s) ==
    IF Len(s) < 2 THEN s
    ELSE IF IsChunk(s[1]) /\ IsChunk(s[2])
    THEN Merge(<< s[1] \o s[2] >> \o SubSeq(s, 3, Len(s)))
    ELSE << s[1] >> \o Merge(Tail(s))

RECURSIVE Flatten(_)
Flatten(pieces) ==
    IF pieces = << >> THEN << >> ELSE pieces[1] \o Flatten(Tail(pieces))

\* Url::to_file_path(): Err for a uri whose path has no segments or that
\* names a host other than localhost.  bytes are the bytes of the path: each
\* segment after its "/", percent-decoded.  "A windows drive letter must end
\* with a slash": one is added when the bytes end in a letter and ":" or "|".
to_file_path(uri) ==
    IF Path(uri) = << >> \/ Path(uri)[1] # "/" THEN None
    ELSE IF Host(uri) \notin {<< >>, << "localhost" >>} THEN None
    ELSE LET path  == Path(uri)
             bytes == Merge(Flatten([i \in 1..Len(path) |->
                         IF path[i] = FileScheme THEN << "file:", "/", "/" >>
                         ELSE << PercentDecode(path[i]) >>]))
             last  == bytes[Len(bytes)]
             drive == /\ IsChunk(last)
                      /\ Len(last) >= 2
                      /\ Char(last, Len(last)) \in {":", "|"}
                      /\ \E n \in (65..90) \cup (97..122) :
                            Char(last, Len(last) - 1) = Byte(n)
         IN  Some(IF drive THEN bytes \o << "/" >> ELSE bytes)

\* Path::file_name(): the last of Path::components(), the pieces between
\* the "/" with the empty ones and "." left out, unless it is "..".
file_name(path) ==
    LET components ==
            SelectSeq(Split(path, "/"), LAMBDA c : c # << >> /\ c # << "." >>)
    IN  IF components = << >> \/ components[Len(components)] = << ".", "." >>
        THEN None
        ELSE Some(components[Len(components)])

\* Path::extension(): what follows the last dot of the file name; nothing when
\* the name has no dot or only a leading one.
extension(path) ==
    IF ~file_name(path).some THEN None
    ELSE LET name == file_name(path).v
             dots == {i \in 1..Len(name) : name[i] = "."}
         IN  IF dots = {}
             THEN None
             ELSE LET last == CHOOSE i \in dots : \A j \in dots : j <= i
                  IN  IF last = 1 THEN None
                      ELSE Some(SubSeq(name, last + 1, Len(name)))

\* file_uri.to_file_path().unwrap().extension().unwrap().to_str().unwrap():
\* the extension as a String, or None where one of the three panics.
extension_string(uri) ==
    LET path == to_file_path(uri)
    IN  IF ~path.some THEN None
        ELSE IF ~extension(path.v).some THEN None
        ELSE from_utf8(extension(path.v).v)

\* uri.to_string().replace("file://", ""): the argument handed to the tool.
FileArg(uri) == RemoveAll(uri, FileScheme)

-----------------------------------------------------------------------------
(* Integer conversions                                                     *)

\* u32 arithmetic is modulo 2^32.  The integers of the model checker stop at
\* 2^31 - 1, so a u32 above that is written as its two's complement reading,
\* its value minus 2^32: u32::MAX, the result of 0 - 1, is written -1.
U32Max == 0 - 1

\* The report values of the model are below 2^31: the non-negative ones fit u32.
InU32(n) == n >= 0

\* i64 -> u32 by try_into().unwrap(): a value outside u32 panics.
TryIntoU32(n) == IF InU32(n) THEN Some(n) ELSE None

\* The line left 1-indexed.
SubOne_Unshifted(n, b) == Some(n)

\* u32 - 1: with overflow checks the subtraction from 0 panics, without them
\* it wraps.
SubOne(n, b) ==
    IF n >= 1 THEN Some(n - 1)
    ELSE IF b = "debug" THEN None ELSE Some(U32Max)

-----------------------------------------------------------------------------
(* Diagnostics                                                             *)

Diagnostic(line, character, line_end, character_end, severity, message) ==
    [start    |-> [line |-> line, character |-> character],
     end      |-> [line |-> line_end, character |-> character_end],
     severity |-> severity,
     message  |-> message]

\* A loop over messages whose body may panic: the vector it builds, or None
\* when an iteration panicked.
Collect(results) ==
    IF \A i \in 1..Len(results) : results[i].some
    THEN Some([i \in 1..Len(results) |-> results[i].v])
    ELSE None

\* A loop over file reports, each ending in one publish_diagnostics: the
\* publications made before the first panicking report.
PublishedUntilPanic(per_file) ==
    LET bad  == {i \in 1..Len(per_file) : ~per_file[i].some}
        stop == IF bad = {} THEN Len(per_file) + 1
                ELSE CHOOSE i \in bad : \A j \in bad : i <= j
    IN  [i \in 1..(stop - 1) |-> per_file[i].v]

Panics(per_file) == \E i \in 1..Len(per_file) : ~per_file[i].some

\* A process output: stderr is a string of bytes, stdout is either bytes that
\* are no JSON document (json = FALSE) or the JSON value they are.
NotJson == [json |-> FALSE]
Json(value) == [json |-> TRUE, v |-> value]

\* The types of the fields of the report structs.
String == [k |-> "String"]
I64 == [k |-> "i64"]
U32 == [k |-> "u32"]
Bool == [k |-> "bool"]
Value == [k |-> "Value"]
Vec(type) == [k |-> "Vec", of |-> type]
HashMap(type) == [k |-> "HashMap", of |-> type]

\* A field of a struct: its name in the document, its type.
Field(name, type) == [name |-> name, type |-> type]

\* #[derive(Deserialize)] struct: the fields in the order of declaration.
Struct(fields) == [k |-> "struct", fields |-> fields]

FieldNames(type) == {type.fields[i].name : i \in 1..Len(type.fields)}

FieldIndex(type, name) ==
    CHOOSE i \in 1..Len(type.fields) : type.fields[i].name = name

RECURSIVE Deserializes(_, _)
\* T::deserialize(value) is Ok.  Every field of a struct is required and has
\* to be of its type, members that the struct does not name are ignored; the
\* Deserialize that serde derives for a struct also takes an array that holds
\* exactly the fields, in the order of declaration.
Deserializes(value, type) ==
    CASE type.k = "String"  -> value.t = "str"
      [] type.k = "i64"     -> value.t = "num"
      [] type.k = "u32"     -> value.t = "num" /\ InU32(value.n)
      [] type.k = "bool"    -> value.t = "bool"
      [] type.k = "Value"   -> TRUE
      [] type.k = "Vec"     ->
            /\ value.t = "arr"
            /\ \A i \in 1..Len(value.a) : Deserializes(value.a[i], type.of)
      [] type.k = "HashMap" ->
            /\ value.t = "obj"
            /\ \A key \in DOMAIN value.o : Deserializes(value.o[key], type.of)
      [] type.k = "struct"  ->
            \/ /\ value.t = "obj"
               /\ FieldNames(type) \subseteq DOMAIN value.o
               /\ \A i \in 1..Len(type.fields) :
                     Deserializes(value.o[type.fields[i].name], type.fields[i].type)
            \/ /\ value.t = "arr"
               /\ Len(value.a) = Len(type.fields)
               /\ \A i \in 1..Len(type.fields) :
                     Deserializes(value.a[i], type.fields[i].type)

RECURSIVE Deserialize(_, _)
\* The value T::deserialize gives for a value that Deserializes accepts: a
\* String is its atoms, a struct a record of its fields under their names in
\* the document, a Vec a sequence, a HashMap a function, a Value itself.
Deserialize(value, type) ==
    CASE type.k = "String"  -> value.s
      [] type.k = "i64"     -> value.n
      [] type.k = "u32"     -> value.n
      [] type.k = "bool"    -> value.b
      [] type.k = "Value"   -> value
      [] type.k = "Vec"     ->
            [i \in 1..Len(value.a) |-> Deserialize(value.a[i], type.of)]
      [] type.k = "HashMap" ->
            [key \in DOMAIN value.o |-> Deserialize(value.o[key], type.of)]
      [] type.k = "struct"  ->
            [name \in FieldNames(type) |->
                Deserialize(IF value.t = "obj" THEN value.o[name]
                            ELSE value.a[FieldIndex(type, name)],
                            type.fields[FieldIndex(type, name)].type)]

\* serde_json::from_slice::<T>(stdout) is Ok
Parses(stdout, type) == stdout.json /\ Deserializes(stdout.v, type)

\* The orders in which a HashMap may yield the keys S.
Orders(S) ==
    {o \in [1..Cardinality(S) -> S] : \A i, j \in DOMAIN o : i # j => o[i] # o[j]}

\* What Plugin::run hands back to did_save, and what it did meanwhile.
RunResult(cmd, args, spawned, panic, pubs) ==
    [cmd |-> cmd, args |-> args, spawned |-> spawned, panic |-> panic,
     pubs |-> pubs, output |-> None]

\* "Append file to args."
RunArgs(plugin_settings, uri) == plugin_settings.args \o << FileArg(uri) >>

\* error!("... {}", str::from_utf8(&output.stderr).unwrap()): the macro
\* evaluates its arguments only when a logger takes the record.
LogPanics(logging, stderr) == logging /\ ~from_utf8(stderr).some

-----------------------------------------------------------------------------
(* plugins/phpcs.rs                                                        *)

PhpcsFileMessage ==
    Struct(<< Field("message", String), Field("source", String),
              Field("severity", I64), Field("fixable", Bool),
              Field("type", String), Field("line", U32), Field("column", U32) >>)

PhpcsFileReport ==
    Struct(<< Field("errors", I64), Field("warnings", I64),
              Field("messages", Vec(PhpcsFileMessage)) >>)

PhpcsReport == Struct(<< Field("files", HashMap(PhpcsFileReport)) >>)

\* serde_json::from_slice::<PhpcsReport>(stdout) is Ok
PhpcsParseOk(stdout) == Parses(stdout, PhpcsReport)

\* serde_json::from_slice::<PhpcsReport>(stdout).unwrap_or_default()
PhpcsParse(stdout) ==
    IF PhpcsParseOk(stdout) THEN Deserialize(stdout.v, PhpcsReport)
    ELSE [files |-> EmptyMap]

PhpcsSeverity(type_field) ==
    CASE type_field = Str("WARNING") -> "WARNING"
      [] type_field = Str("ERROR")   -> "ERROR"
      [] OTHER                       -> "INFORMATION"

PhpcsDiagnostic(message, b) ==
    LET line == SubOne(message.line, b)
    IN  IF ~line.some THEN None
        ELSE Some(Diagnostic(line.v, message.column, line.v, message.column,
                             PhpcsSeverity(message.type), message.message))

PhpcsFile(file_report, b) ==
    Collect([i \in 1..Len(file_report.messages) |->
                PhpcsDiagnostic(file_report.messages[i], b)])

\* PhpcsPlugin::run with the report unwrapped instead of defaulted: a stdout
\* that does not parse panics.
PhpcsRun_UnwrapReport(plugin_settings, uri, files, b, out, order) ==
    LET args == RunArgs(plugin_settings, uri)
        cmd  == plugin_settings.cmd
    IN  IF ~Spawns(files, cmd)
        THEN RunResult(cmd, args, FALSE, TRUE, << >>)
        ELSE IF out.stderr # EmptyStr
        THEN RunResult(cmd, args, TRUE, ~from_utf8(out.stderr).some, << >>)
        ELSE IF ~PhpcsParseOk(out.stdout)
        THEN RunResult(cmd, args, TRUE, TRUE, << >>)
        ELSE LET report   == PhpcsParse(out.stdout)
                 keys     == IF DOMAIN report.files = {} THEN << >> ELSE order
                 per_file == [i \in 1..Len(keys) |-> PhpcsFile(report.files[keys[i]], b)]
             IN  RunResult(cmd, args, TRUE, Panics(per_file),
                           PublishedUntilPanic(per_file))

\* PhpcsPlugin::run.  order: the order in which report.files.values() yields.
\* The stderr branch formats str::from_utf8(&output.stderr).unwrap() into the
\* message it logs.
PhpcsRun(plugin_settings, uri, files, b, out, order) ==
    LET args == RunArgs(plugin_settings, uri)
        cmd  == plugin_settings.cmd
    IN  IF ~Spawns(files, cmd)
        THEN RunResult(cmd, args, FALSE, TRUE, << >>)
        ELSE IF out.stderr # EmptyStr
        THEN RunResult(cmd, args, TRUE, ~from_utf8(out.stderr).some, << >>)
        ELSE LET report   == PhpcsParse(out.stdout)
                 keys     == IF DOMAIN report.files = {} THEN << >> ELSE order
                 per_file == [i \in 1..Len(keys) |-> PhpcsFile(report.files[keys[i]], b)]
             IN  RunResult(cmd, args, TRUE, Panics(per_file),
                           PublishedUntilPanic(per_file))

-----------------------------------------------------------------------------
(* plugins/phpstan.rs                                                      *)

PhpstanFileMessage == Struct(<< Field("message", String), Field("line", U32) >>)

PhpstanFileReport == Struct(<< Field("messages", Vec(PhpstanFileMessage)) >>)

PhpstanReport == Struct(<< Field("files", HashMap(PhpstanFileReport)) >>)

PhpstanParseOk(stdout) == Parses(stdout, PhpstanReport)

PhpstanParse(stdout) ==
    IF PhpstanParseOk(stdout) THEN Deserialize(stdout.v, PhpstanReport)
    ELSE [files |-> EmptyMap]

PhpstanColumn == 1

PhpstanDiagnostic(message, b) ==
    LET line == SubOne(message.line, b)
    IN  IF ~line.some THEN None
        ELSE Some(Diagnostic(line.v, PhpstanColumn, line.v, PhpstanColumn,
                             "ERROR", message.message))

PhpstanFile(file_report, b) ==
    Collect([i \in 1..Len(file_report.messages) |->
                PhpstanDiagnostic(file_report.messages[i], b)])

\* PhpstanPlugin::run: stderr is not looked at.
PhpstanRun(plugin_settings, uri, files, b, out, order) ==
    LET args == RunArgs(plugin_settings, uri)
        cmd  == plugin_settings.cmd
    IN  IF ~Spawns(files, cmd)
        THEN RunResult(cmd, args, FALSE, TRUE, << >>)
        ELSE LET report   == PhpstanParse(out.stdout)
                 keys     == IF DOMAIN report.files = {} THEN << >> ELSE order
                 per_file == [i \in 1..Len(keys) |-> PhpstanFile(report.files[keys[i]], b)]
             IN  RunResult(cmd, args, TRUE, Panics(per_file),
                           PublishedUntilPanic(per_file))

-----------------------------------------------------------------------------
(* plugins/eslint.rs                                                       *)

EslintFileMessage ==
    Struct(<< Field("ruleId", Value), Field("fatal", Bool), Field("severity", I64),
              Field("message", String), Field("line", I64), Field("column", I64),
              Field("nodeType", Value) >>)

EslintFileReport ==
    Struct(<< Field("filePath", String), Field("messages", Vec(EslintFileMessage)),
              Field("suppressedMessages", Vec(Value)), Field("errorCount", I64),
              Field("fatalErrorCount", I64), Field("warningCount", I64),
              Field("fixableErrorCount", I64), Field("fixableWarningCount", I64),
              Field("source", String), Field("usedDeprecatedRules", Vec(Value)) >>)

\* pub type EslintReport = Vec<FileReport>
EslintReport == Vec(EslintFileReport)

\* serde_json::from_slice::<Vec<FileReport>>(stdout) is Ok
EslintParseOk(stdout) == Parses(stdout, EslintReport)

\* serde_json::from_slice::<Vec<FileReport>>(stdout).unwrap_or_default()
EslintParse(stdout) ==
    IF EslintParseOk(stdout) THEN Deserialize(stdout.v, EslintReport) ELSE << >>

\* The two known levels taken for each other.
EslintSeverity_Swapped(severity) ==
    CASE severity = 1 -> "ERROR"
      [] severity = 2 -> "WARNING"
      [] OTHER        -> "INFORMATION"

EslintSeverity(severity) ==
    CASE severity = 1 -> "WARNING"
      [] severity = 2 -> "ERROR"
      [] OTHER        -> "INFORMATION"

EslintDiagnostic(message, b) ==
    LET line_as_u32 == TryIntoU32(message.line)
        line        == IF line_as_u32.some THEN SubOne(line_as_u32.v, b) ELSE None
        character   == TryIntoU32(message.column)
    IN  IF ~line.some \/ ~character.some THEN None
        ELSE Some(Diagnostic(line.v, character.v, line.v, character.v,
                             EslintSeverity(message.severity), message.message))

EslintFile(file_report, b) ==
    Collect([i \in 1..Len(file_report.messages) |->
                EslintDiagnostic(file_report.messages[i], b)])

\* EslintPlugin::run: the diagnostics of a file report are built and dropped,
\* nothing is published.  logging: a logger is installed (main, --debug).
EslintRun(plugin_settings, uri, files, b, logging, out, order) ==
    LET args == RunArgs(plugin_settings, uri)
        cmd  == plugin_settings.cmd
    IN  IF ~Spawns(files, cmd)
        THEN RunResult(cmd, args, FALSE, TRUE, << >>)
        ELSE IF out.stderr # EmptyStr
        THEN RunResult(cmd, args, TRUE, LogPanics(logging, out.stderr), << >>)
        ELSE LET report   == EslintParse(out.stdout)
                 per_file == [i \in 1..Len(report) |-> EslintFile(report[i], b)]
             IN  RunResult(cmd, args, TRUE, Panics(per_file), << >>)

-----------------------------------------------------------------------------
(* plugins/stylelint.rs                                                    *)

StylelintFileMessage ==
    Struct(<< Field("line", I64), Field("column", I64), Field("endLine", I64),
              Field("endColumn", I64), Field("rule", String),
              Field("severity", String), Field("text", String) >>)

StylelintFileReport ==
    Struct(<< Field("source", String), Field("deprecations", Vec(Value)),
              Field("invalidOptionWarnings", Vec(Value)),
              Field("parseErrors", Vec(Value)), Field("errored", Bool),
              Field("warnings", Vec(StylelintFileMessage)) >>)

\* pub type StylelintReport = Vec<FileReport>
StylelintReport == Vec(StylelintFileReport)

StylelintParseOk(stdout) == Parses(stdout, StylelintReport)

StylelintParse(stdout) ==
    IF StylelintParseOk(stdout) THEN Deserialize(stdout.v, StylelintReport)
    ELSE << >>

StylelintSeverity(severity) ==
    CASE severity = Str("warning") -> "WARNING"
      [] severity = Str("error")   -> "ERROR"
      [] OTHER                     -> "INFORMATION"

\* The end character is taken from message.column.
StylelintDiagnostic(message, b) ==
    LET line_as_u32     == TryIntoU32(message.line)
        end_line_as_u32 == TryIntoU32(message.endLine)
        line            == IF line_as_u32.some THEN SubOne(line_as_u32.v, b) ELSE None
        line_end        == IF end_line_as_u32.some THEN SubOne(end_line_as_u32.v, b)
                           ELSE None
        character       == TryIntoU32(message.column)
    IN  IF ~line.some \/ ~line_end.some \/ ~character.some THEN None
        ELSE Some(Diagnostic(line.v, character.v, line_end.v, character.v,
                             StylelintSeverity(message.severity), message.text))

StylelintFile(file_report, b) ==
    Collect([i \in 1..Len(file_report.warnings) |->
                StylelintDiagnostic(file_report.warnings[i], b)])

\* StylelintPlugin::run
StylelintRun(plugin_settings, uri, files, b, logging, out, order) ==
    LET args == RunArgs(plugin_settings, uri)
        cmd  == plugin_settings.cmd
    IN  IF ~Spawns(files, cmd)
        THEN RunResult(cmd, args, FALSE, TRUE, << >>)
        ELSE IF out.stderr # EmptyStr
        THEN RunResult(cmd, args, TRUE, LogPanics(logging, out.stderr), << >>)
        ELSE LET report   == StylelintParse(out.stdout)
                 per_file == [i \in 1..Len(report) |-> StylelintFile(report[i], b)]
             IN  RunResult(cmd, args, TRUE, Panics(per_file),
                           PublishedUntilPanic(per_file))

-----------------------------------------------------------------------------
(* Dispatch over the registry (dyn Plugin)                                 *)

Run(id, plugin_settings, uri, files, b, logging, out, order) ==
    CASE id = "phpcs"     -> PhpcsRun(plugin_settings, uri, files, b, out, order)
      [] id = "phpstan"   -> PhpstanRun(plugin_settings, uri, files, b, out, order)
      [] id = "eslint"    ->
            EslintRun(plugin_settings, uri, files, b, logging, out, order)
      [] id = "stylelint" ->
            StylelintRun(plugin_settings, uri, files, b, logging, out, order)

\* The run returns from its stderr branch without an await in between (eslint,
\* stylelint; phpcs awaits a log_message there).
ReturnsAtOnce(id, out) == id \in {"eslint", "stylelint"} /\ out.stderr # EmptyStr

\* The keys of the files map of the report a run parses (no keys when the
\* report is a vector).
ReportKeys(id, out) ==
    CASE id = "phpcs"   -> DOMAIN PhpcsParse(out.stdout).files
      [] id = "phpstan" -> DOMAIN PhpstanParse(out.stdout).files
      [] OTHER          -> {}

-----------------------------------------------------------------------------
(* Inputs                                                                  *)

RootUris == {None, Some(<< FileScheme, "/proj" >>)}

LocalBin(id) == << "/proj", LocalBinSuffix(id) >>

\* A machine: the paths at which a file exists, and the commands that start a
\* process (an executable file at a path, or a bare name found on PATH).  A
\* file that exists need not start: it may lack the execute permission, be a
\* directory, or be gone by the time of the save.
ToolEnv(files, commands) == [files |-> files, commands |-> commands]

\* The machine with every file at these paths executable.
Executables(paths) == ToolEnv(paths, paths)

Builds == {"debug", "release"}

\* The machines the server may run on, each with the build of the server it
\* has: one with every tool but stylelint in the project, and one where
\* phpcs is in the project but cannot be started, stylelint is in the
\* project, eslint and phpstan are on the PATH only, and a linter is at
\* /opt/lint.
Machines ==
    { [fs    |-> Executables({LocalBin("phpcs"), LocalBin("phpstan"),
                              LocalBin("eslint")}),
       build |-> "debug"],
      [fs    |-> ToolEnv({LocalBin("phpcs"), LocalBin("stylelint"), Str("/opt/lint")},
                         {Str("eslint"), Str("phpstan"), LocalBin("stylelint"),
                          Str("/opt/lint")}),
       build |-> "release"] }

\* Answers of the client to the "checkmate.plugins" configuration request.
ClientConfigs ==
    { << JObj(("phpcs" :> JObj([args |-> JNum(3)]))
              @@ ("eslint" :> JObj([filetypes |-> JStr(<< "js" >>)]))
              @@ ("stylelint" :> JNull)) >>,
      << JObj(("phpstan" :> JObj([filetypes |-> JStr(<< "css" >>)]))
              @@ ("stylelint" :> JNull)) >>,
      << JObj(("eslint" :> JObj([args |-> JStr(<< "--foo" >>)]))
              @@ ("stylelint" :> JObj([cmd       |-> JStr(<< "/opt/lint" >>),
                                       args      |-> JStr(<< "--foo", " ", "-q" >>),
                                       filetypes |-> JStr(<< "css", ",", "php" >>)]))
              @@ ("nope" :> JObj(EmptyMap))) >>,
      << JObj(("phpcs" :> JObj([cmd |-> JStr(<< "/gone" >>), args |-> JStr(EmptyStr)]))
              @@ ("phpstan" :> JNull)) >>,
      << JNull >> }

\* The configuration request is answered, or fails.
ConfigurationAnswers == {None} \cup {Some(c) : c \in ClientConfigs}

\* The uri of a document of the project.
ProjectFile(name) == << FileScheme, "/", "proj", "/" >> \o name

\* The documents the client may save: with percent escapes in the name, with
\* an extension that is no UTF-8, without an extension, on another host.
SavedUris ==
    { ProjectFile(<< "a", ".", "php" >>),
      ProjectFile(<< "b", ".", "tsx" >>),
      ProjectFile(<< "s", ".", "css" >>),
      ProjectFile(<< "my", "%20", "c", "%2E", "php" >>),
      ProjectFile(<< "x", ".", "%FF" >>),
      ProjectFile(<< "Makefile" >>),
      << "http://", "proj", "/", "a", ".", "php" >> }

\* A member of a JSON object that holds a string of one chunk, a number.
PhpcsMessageJson(text, line, column, type) ==
    JObj([message |-> JStr(Str(text)), source |-> JStr(Str("Generic.Sniff")),
          severity |-> JNum(5), fixable |-> JBool(FALSE), type |-> JStr(Str(type)),
          line |-> JNum(line), column |-> JNum(column)])

\* {"files":{"a.php":{"messages":[{"message":"X","line":3,"column":2,"type":"ERROR"}]}}}
PhpcsMinimalReport ==
    Json(JObj([files |-> JObj("a.php" :>
        JObj([messages |->
                 JArr(<< JObj([message |-> JStr(Str("X")), line |-> JNum(3),
                               column |-> JNum(2), type |-> JStr(Str("ERROR"))]) >>)]))]))

PhpcsReportOf(messages) ==
    Json(JObj([files |-> JObj("a.php" :>
        JObj([errors |-> JNum(1), warnings |-> JNum(0),
              messages |-> JArr(messages)]))]))

PhpcsFullReport == PhpcsReportOf(<< PhpcsMessageJson("X", 3, 2, "ERROR") >>)

\* PhpcsFullReport with "fixable":1, a number where the struct has a bool.
PhpcsMistypedReport ==
    PhpcsReportOf(<< [PhpcsMessageJson("X", 3, 2, "ERROR") EXCEPT
                         !.o.fixable = JNum(1)] >>)

\* PhpcsFullReport with every struct written as an array, the members in the
\* order of declaration: [{"a.php":[1,0,[["X","Generic.Sniff",5,false,"ERROR",3,2]]]}]
PhpcsArrayReport ==
    Json(JArr(<< JObj("a.php" :>
        JArr(<< JNum(1), JNum(0),
                JArr(<< JArr(<< JStr(Str("X")), JStr(Str("Generic.Sniff")), JNum(5),
                                JBool(FALSE), JStr(Str("ERROR")), JNum(3),
                                JNum(2) >>) >>) >>)) >>))

PhpstanMessageJson(text, line) ==
    JObj([message |-> JStr(Str(text)), line |-> JNum(line)])

PhpstanReportAt(line) ==
    Json(JObj([totals |-> JObj([errors |-> JNum(0), file_errors |-> JNum(1)]),
               files  |-> JObj("a.php" :>
                   JObj([errors |-> JNum(1),
                         messages |-> JArr(<< PhpstanMessageJson("P", line) >>)]))]))

\* Two files, the second with a message at line 0.
PhpstanTwoFileReport ==
    Json(JObj([files |-> JObj(
        ("a.php" :> JObj([messages |-> JArr(<< PhpstanMessageJson("P", 10) >>)]))
        @@ ("b.php" :> JObj([messages |-> JArr(<< PhpstanMessageJson("Q", 0) >>)])))]))

\* "files" is an array of file reports, not an object:
\* {"files":[{"messages":[{"message":"P","line":10}]}]}
PhpstanFilesArrayReport ==
    Json(JObj([files |->
        JArr(<< JObj([messages |-> JArr(<< PhpstanMessageJson("P", 10) >>)]) >>)]))

EslintMessageJson(text, line, column, severity) ==
    JObj([ruleId |-> JStr(Str("semi")), fatal |-> JBool(FALSE),
          severity |-> JNum(severity), message |-> JStr(Str(text)),
          line |-> JNum(line), column |-> JNum(column),
          nodeType |-> JStr(Str("Program"))])

EslintReportOf(messages) ==
    Json(JArr(<< JObj([filePath |-> JStr(Str("b.tsx")), messages |-> JArr(messages),
                       suppressedMessages |-> JArr(<< >>), errorCount |-> JNum(1),
                       fatalErrorCount |-> JNum(0), warningCount |-> JNum(0),
                       fixableErrorCount |-> JNum(0), fixableWarningCount |-> JNum(0),
                       source |-> JStr(EmptyStr),
                       usedDeprecatedRules |-> JArr(<< >>)]) >>))

\* [{"filePath":"b.tsx","messages":[{"severity":2,"line":5,"column":1,"message":"E"}]}]
EslintMinimalReport ==
    Json(JArr(<< JObj([filePath |-> JStr(Str("b.tsx")),
                       messages |->
                           JArr(<< JObj([severity |-> JNum(2), line |-> JNum(5),
                                         column |-> JNum(1),
                                         message |-> JStr(Str("E"))]) >>)]) >>))

StylelintWarningJson(text, line, column, endLine, endColumn, severity) ==
    JObj([line |-> JNum(line), column |-> JNum(column), endLine |-> JNum(endLine),
          endColumn |-> JNum(endColumn), rule |-> JStr(Str("color-no-invalid-hex")),
          severity |-> JStr(Str(severity)), text |-> JStr(Str(text))])

StylelintReportOf(warnings) ==
    Json(JArr(<< JObj([source |-> JStr(Str("s.css")), deprecations |-> JArr(<< >>),
                       invalidOptionWarnings |-> JArr(<< >>),
                       parseErrors |-> JArr(<< >>), errored |-> JBool(TRUE),
                       warnings |-> JArr(warnings)]) >>))

\* {"warnings":[]}: one file report where the array of them is expected.
StylelintObjectReport == Json(JObj([warnings |-> JArr(<< >>)]))

Output(stderr, stdout) == [stderr |-> stderr, stdout |-> stdout]

\* What a started tool may print.
ToolOutcomes(id) ==
    CASE id = "phpcs" ->
            {Output(EmptyStr, NotJson), Output(EmptyStr, PhpcsMinimalReport),
             Output(EmptyStr, PhpcsFullReport), Output(EmptyStr, PhpcsArrayReport),
             Output(EmptyStr, PhpcsMistypedReport),
             Output(Str("boom"), PhpcsFullReport), Output(Str(NotUtf8), NotJson)}
      [] id = "phpstan" ->
            {Output(EmptyStr, NotJson), Output(EmptyStr, PhpstanReportAt(10)),
             Output(EmptyStr, PhpstanTwoFileReport),
             Output(EmptyStr, PhpstanFilesArrayReport),
             Output(Str("boom"), PhpstanReportAt(10))}
      [] id = "eslint" ->
            {Output(EmptyStr, NotJson), Output(EmptyStr, EslintMinimalReport),
             Output(EmptyStr, EslintReportOf(<< EslintMessageJson("E", 5, 1, 2) >>)),
             Output(Str("boom"),
                    EslintReportOf(<< EslintMessageJson("E", 5, 1, 2) >>)),
             Output(Str(NotUtf8), NotJson)}
      [] id = "stylelint" ->
            {Output(EmptyStr, NotJson), Output(EmptyStr, StylelintObjectReport),
             Output(EmptyStr,
                    StylelintReportOf(<< StylelintWarningJson("S", 2, 3, 4, 7,
                                                              "error") >>)),
             Output(Str("boom"),
                    StylelintReportOf(<< StylelintWarningJson("S", 2, 3, 4, 7,
                                                              "error") >>)),
             Output(Str(NotUtf8), NotJson)}

\* The output of a process that did not start.
NoOutput == [stderr |-> EmptyStr, stdout |-> NotJson]

\* No message of a report is being converted.
NoMessage == [tool |-> "none"]

\* The Diagnostic of report_message is not built yet; it is built; the
\* conversion panicked.
NotBuilt == [built |-> FALSE]
Built(result) == [built |-> TRUE, res |-> result]

-----------------------------------------------------------------------------
(* The server                                                              *)

\* Nobody holds the thread: every handler is suspended at an await (or has
\* returned), and any of them, or a new notification, may go next.
Nobody == 0

\* The holder of the thread while Lsp::initialized runs between two awaits;
\* a save pass holds it under its number, from 1 on.
InitializedHandler == 0 - 1

\* The place of a save pass that is not inside Plugin::run.
NoRun == [id |-> "", queue |-> << >>, panic |-> FALSE]

Init ==
    /\ phase = "created"
    /\ holder = Nobody
    /\ \E machine \in Machines : fs = machine.fs /\ build = machine.build
    /\ debug \in BOOLEAN
    /\ root_uri = None
    /\ configuration = None
    /\ editor_plugins = EmptyMap
    /\ pending = {}
    /\ probed = None
    /\ installed_plugins = EmptyMap
    /\ saves = 0
    /\ save_uri = << >>
    /\ snapshot = << >>
    /\ todo = << >>
    /\ position = << >>
    /\ running = << >>
    /\ diagnostics = << >>
    /\ invocations = << >>
    /\ publications = << >>
    /\ published = EmptyMap
    /\ report_message = NoMessage
    /\ built_item = NotBuilt

\* The handlers are futures polled on one thread: a handler runs from one
\* await to the next without interruption, and at an await any other handler
\* that is ready, or a new notification, may go first.  Notifications are
\* served once initialize has returned.  With --debug the handlers log, and
\* so await, at more places.
\*
\* A panic of a handler unwinds through the serve loop and ends the process.
Crash == phase' = "crashed"

\* initialize has returned and the process is alive.
Serving == phase \in {"initialize_done", "initializing", "running"}

\* Lsp::initialize: params.root_uri.unwrap()
Initialize(params_root_uri) ==
    /\ phase = "created"
    /\ IF params_root_uri.some
       THEN /\ root_uri' = params_root_uri
            /\ phase' = "initialize_done"
       ELSE /\ Crash
            /\ UNCHANGED root_uri
    /\ UNCHANGED << holder, configuration, editor_plugins, pending, probed,
                    installed_plugins, published >>
    /\ UNCHANGED << env_vars, pass_vars, message_vars >>

\* Lsp::initialized from the answer to its configuration request
\* (.expect("Cant fetch code editor config.")) to its loop.
Initialized(editor_settings) ==
    /\ phase = "initialize_done"
    /\ holder = Nobody
    /\ IF editor_settings.some
       THEN /\ configuration' = editor_settings
            /\ editor_plugins' = parse_client_editor_settings(editor_settings.v)
            /\ pending' = DOMAIN editor_plugins'
            /\ phase' = "initializing"
            /\ holder' = InitializedHandler
       ELSE /\ Crash
            /\ UNCHANGED << holder, configuration, editor_plugins, pending >>
    /\ UNCHANGED << root_uri, probed, installed_plugins, published >>
    /\ UNCHANGED << env_vars, pass_vars, message_vars >>

\* The iteration with the loop left, instead of continued, at an unknown id.
ResolvePlugin_StopAtUnknown(plugin_id) ==
    /\ phase = "initializing"
    /\ holder \in {Nobody, InitializedHandler}
    /\ probed = None
    /\ plugin_id \in pending
    /\ LET default_plugin_setting == is_installed(plugin_id, root_uri.v, fs)
       IN  \/ /\ plugin_id \notin AvailablePlugins
              /\ pending' = {}
              /\ holder' = Nobody
              /\ UNCHANGED << probed, installed_plugins >>
           \/ /\ plugin_id \in AvailablePlugins
              /\ ~default_plugin_setting.some
              /\ pending' = pending \ {plugin_id}
              /\ holder' = IF debug THEN Nobody ELSE InitializedHandler
              /\ UNCHANGED << probed, installed_plugins >>
           \/ /\ plugin_id \in AvailablePlugins
              /\ default_plugin_setting.some
              /\ IF debug
                 THEN /\ probed' = Some([id |-> plugin_id,
                                         setting |-> default_plugin_setting.v])
                      /\ holder' = Nobody
                      /\ UNCHANGED << pending, installed_plugins >>
                 ELSE /\ pending' = pending \ {plugin_id}
                      /\ installed_plugins' =
                            Insert(installed_plugins, plugin_id,
                                   MergeSettings(editor_plugins[plugin_id],
                                                 default_plugin_setting.v))
                      /\ holder' = InitializedHandler
                      /\ UNCHANGED probed
    /\ UNCHANGED << phase, root_uri, configuration, editor_plugins, published >>
    /\ UNCHANGED << env_vars, pass_vars, message_vars >>

\* One iteration of the loop of Lsp::initialized, for a plugin id the map
\* yields, up to its await or, when it has none, to its end.  The iteration
\* awaits a log_message for an unknown id; with --debug it also awaits one
\* for a plugin that is not installed, and one between is_installed and the
\* insert of a plugin that is.
ResolvePlugin(plugin_id) ==
    /\ phase = "initializing"
    /\ holder \in {Nobody, InitializedHandler}
    /\ probed = None
    /\ plugin_id \in pending
    /\ LET default_plugin_setting == is_installed(plugin_id, root_uri.v, fs)
       IN  \/ /\ plugin_id \notin AvailablePlugins
              /\ pending' = pending \ {plugin_id}
              /\ holder' = Nobody
              /\ UNCHANGED << probed, installed_plugins >>
           \/ /\ plugin_id \in AvailablePlugins
              /\ ~default_plugin_setting.some
              /\ pending' = pending \ {plugin_id}
              /\ holder' = IF debug THEN Nobody ELSE InitializedHandler
              /\ UNCHANGED << probed, installed_plugins >>
           \/ /\ plugin_id \in AvailablePlugins
              /\ default_plugin_setting.some
              /\ IF debug
                 THEN /\ probed' = Some([id |-> plugin_id,
                                         setting |-> default_plugin_setting.v])
                      /\ holder' = Nobody
                      /\ UNCHANGED << pending, installed_plugins >>
                 ELSE /\ pending' = pending \ {plugin_id}
                      /\ installed_plugins' =
                            Insert(installed_plugins, plugin_id,
                                   MergeSettings(editor_plugins[plugin_id],
                                                 default_plugin_setting.v))
                      /\ holder' = InitializedHandler
                      /\ UNCHANGED probed
    /\ UNCHANGED << phase, root_uri, configuration, editor_plugins, published >>
    /\ UNCHANGED << env_vars, pass_vars, message_vars >>

\* The iteration resumed after the --debug log_message "Plugin .. is
\* installed": the settings are merged and inserted, and the loop goes on
\* without an await.
InsertPlugin ==
    /\ phase = "initializing"
    /\ holder = Nobody
    /\ probed.some
    /\ installed_plugins' =
          Insert(installed_plugins, probed.v.id,
                 MergeSettings(editor_plugins[probed.v.id], probed.v.setting))
    /\ pending' = pending \ {probed.v.id}
    /\ probed' = None
    /\ holder' = InitializedHandler
    /\ UNCHANGED << phase, root_uri, configuration, editor_plugins, published >>
    /\ UNCHANGED << env_vars, pass_vars, message_vars >>

\* The loop of Lsp::initialized is over: "checkmate initialized!"
InitializedEnd ==
    /\ phase = "initializing"
    /\ holder \in {Nobody, InitializedHandler}
    /\ pending = {}
    /\ probed = None
    /\ phase' = "running"
    /\ holder' = Nobody
    /\ UNCHANGED << root_uri, configuration, editor_plugins, pending, probed,
                    installed_plugins, published >>
    /\ UNCHANGED << env_vars, pass_vars, message_vars >>

\* Client::publish_diagnostics(uri, diags, version): the diagnostics of the
\* document are replaced.
Publish(pubs, uri, diags) == Insert(pubs, uri, diags)

\* PluginLineOutput -> Diagnostic (did_save, the loop over output.messages)
OutputDiagnostics(output) ==
    IF ~output.some THEN << >>
    ELSE [i \in 1..Len(output.v.messages) |->
             LET message == output.v.messages[i]
             IN  Diagnostic(message.position.line, message.position.column,
                            message.position.line_end, message.position.column_end,
                            message.severity, message.text)]

\* The filetype validation left out.
filetype_allowed_Always(settings, ext) == TRUE

\* "Validate filetypes.": settings.filetypes.contains(&extension)
filetype_allowed(settings, ext) ==
    \E i \in 1..Len(settings.filetypes) : settings.filetypes[i] = ext

\* What is kept of the save passes when a new one starts: the locals of a
\* pass that has returned are dropped.
Kept(per_pass, dropped) ==
    [q \in 1..saves |-> IF position[q] = "returned" THEN dropped ELSE per_pass[q]]

\* The log with what pass p did added, when p is the pass that started last.
Logged(p, log, entry) == IF p = saves THEN Append(log, entry) ELSE log

\* Lsp::did_save up to its first await.  With --debug that is the log_message
\* "Text saved, running linters...", before the installed set is cloned;
\* without it the set is cloned and the pass runs on into its loop.
DidSave(uri) ==
    /\ Serving
    /\ holder = Nobody
    /\ saves < MaxSaves
    /\ saves' = saves + 1
    /\ save_uri' = Append(Kept(save_uri, EmptyStr), uri)
    /\ snapshot' = Append(Kept(snapshot, EmptyMap),
                          IF debug THEN EmptyMap ELSE installed_plugins)
    /\ todo' = Append(Kept(todo, {}),
                      IF debug THEN {} ELSE DOMAIN installed_plugins)
    /\ position' = Append(Kept(position, "dropped"),
                          IF debug THEN "start" ELSE "loop")
    /\ running' = Append(running, NoRun)
    /\ diagnostics' = Append(diagnostics, << >>)
    /\ invocations' = << >>
    /\ publications' = << >>
    /\ holder' = IF debug THEN Nobody ELSE saves'
    /\ UNCHANGED << phase, published >>
    /\ UNCHANGED << env_vars, settings_vars, message_vars >>

\* Lsp::did_save resumed after its first log_message (--debug): the installed
\* set is cloned and the loop entered.
DidSaveClone(p) ==
    /\ Serving
    /\ p \in 1..saves
    /\ holder = Nobody
    /\ position[p] = "start"
    /\ snapshot' = [snapshot EXCEPT ![p] = installed_plugins]
    /\ todo' = [todo EXCEPT ![p] = DOMAIN installed_plugins]
    /\ position' = [position EXCEPT ![p] = "loop"]
    /\ holder' = p
    /\ UNCHANGED << phase, saves, save_uri, running, diagnostics, invocations,
                    publications, published >>
    /\ UNCHANGED << env_vars, settings_vars, message_vars >>

\* "Validate filetypes." for plugin id in pass p, up to the next await
\* (to_file_path().unwrap().extension().unwrap().to_str().unwrap()): a plugin
\* that is skipped awaits a log_message only with --debug, Plugin::run starts
\* with one.
Validate(p, id) ==
    LET ext == extension_string(save_uri[p])
    IN  \/ /\ ~ext.some
           /\ Crash
           /\ UNCHANGED << holder, todo, position, running >>
        \/ /\ ext.some
           /\ ~filetype_allowed(snapshot[p][id], ext.v)
           /\ todo' = [todo EXCEPT ![p] = @ \ {id}]
           /\ position' = [position EXCEPT ![p] = "loop"]
           /\ running' = [running EXCEPT ![p] = NoRun]
           /\ holder' = IF debug THEN Nobody ELSE p
           /\ UNCHANGED phase
        \/ /\ ext.some
           /\ filetype_allowed(snapshot[p][id], ext.v)
           /\ position' = [position EXCEPT ![p] = "run"]
           /\ running' = [running EXCEPT ![p] = [NoRun EXCEPT !.id = id]]
           /\ holder' = Nobody
           /\ UNCHANGED << phase, todo >>

\* One iteration of the loop of Lsp::did_save, for a plugin the clone yields,
\* up to its first await: with --debug the log_message "Running plugin: ..",
\* before the filetype validation; without it the validation is made at once.
DidSavePlugin(p, id) ==
    /\ Serving
    /\ p \in 1..saves
    /\ holder \in {Nobody, p}
    /\ position[p] = "loop"
    /\ id \in todo[p]
    /\ IF debug
       THEN /\ position' = [position EXCEPT ![p] = "picked"]
            /\ running' = [running EXCEPT ![p] = [NoRun EXCEPT !.id = id]]
            /\ holder' = Nobody
            /\ UNCHANGED << phase, todo >>
       ELSE Validate(p, id)
    /\ UNCHANGED << saves, save_uri, snapshot, diagnostics, invocations,
                    publications, published >>
    /\ UNCHANGED << env_vars, settings_vars, message_vars >>

\* The iteration resumed after the log_message "Running plugin: .." (--debug).
DidSaveValidate(p) ==
    /\ Serving
    /\ p \in 1..saves
    /\ holder = Nobody
    /\ position[p] = "picked"
    /\ Validate(p, running[p].id)
    /\ UNCHANGED << saves, save_uri, snapshot, diagnostics, invocations,
                    publications, published >>
    /\ UNCHANGED << env_vars, settings_vars, message_vars >>

\* Plugin::run from the spawn of the tool to its next await: the first
\* publish_diagnostics, the log_message after the last file report (the run
\* then returns None and the loop of did_save goes on), or none when eslint
\* or stylelint return at once.
PluginRun(p) ==
    /\ Serving
    /\ p \in 1..saves
    /\ holder \in {Nobody, p}
    /\ position[p] = "run"
    /\ LET id == running[p].id
       IN  \E out \in (IF Spawns(fs, snapshot[p][id].cmd)
                       THEN ToolOutcomes(id) ELSE {NoOutput}) :
           \E order \in Orders(ReportKeys(id, out)) :
              LET r == Run(id, snapshot[p][id], save_uri[p], fs, build, debug, out,
                           order)
              IN  /\ invocations' =
                        Logged(p, invocations,
                               [id |-> id, cmd |-> r.cmd, args |-> r.args,
                                spawned |-> r.spawned, out |-> out])
                  /\ IF r.pubs = << >>
                     THEN /\ UNCHANGED << publications, published >>
                          /\ IF r.panic
                             THEN /\ Crash
                                  /\ UNCHANGED << holder, todo, position, running,
                                                  diagnostics >>
                             ELSE /\ todo' = [todo EXCEPT ![p] = @ \ {id}]
                                  /\ position' = [position EXCEPT ![p] = "loop"]
                                  /\ running' = [running EXCEPT ![p] = NoRun]
                                  /\ diagnostics' =
                                        [diagnostics EXCEPT
                                            ![p] = @ \o OutputDiagnostics(r.output)]
                                  /\ holder' = IF ReturnsAtOnce(id, out)
                                               THEN p ELSE Nobody
                                  /\ UNCHANGED phase
                     ELSE /\ publications' =
                                Logged(p, publications,
                                       [by |-> id, diags |-> Head(r.pubs)])
                          /\ published' = Publish(published, save_uri[p], Head(r.pubs))
                          /\ holder' = Nobody
                          /\ IF Tail(r.pubs) = << >> /\ ~r.panic
                             THEN /\ todo' = [todo EXCEPT ![p] = @ \ {id}]
                                  /\ position' = [position EXCEPT ![p] = "loop"]
                                  /\ running' = [running EXCEPT ![p] = NoRun]
                                  /\ diagnostics' =
                                        [diagnostics EXCEPT
                                            ![p] = @ \o OutputDiagnostics(r.output)]
                             ELSE /\ position' = [position EXCEPT ![p] = "publishing"]
                                  /\ running' =
                                        [running EXCEPT
                                            ![p] = [id |-> id, queue |-> Tail(r.pubs),
                                                    panic |-> r.panic]]
                                  /\ UNCHANGED << todo, diagnostics >>
                          /\ UNCHANGED phase
    /\ UNCHANGED << saves, save_uri, snapshot >>
    /\ UNCHANGED << env_vars, settings_vars, message_vars >>

\* Plugin::run resumed after a publish_diagnostics: the diagnostics of the
\* next file report are built, which may panic, and published.
PublishNext(p) ==
    /\ Serving
    /\ p \in 1..saves
    /\ holder \in {Nobody, p}
    /\ position[p] = "publishing"
    /\ IF running[p].queue = << >>
       THEN /\ Crash
            /\ UNCHANGED << holder, todo, position, running, publications, published >>
       ELSE /\ publications' =
                  Logged(p, publications,
                         [by |-> running[p].id, diags |-> Head(running[p].queue)])
            /\ published' = Publish(published, save_uri[p], Head(running[p].queue))
            /\ holder' = Nobody
            /\ IF Tail(running[p].queue) = << >> /\ ~running[p].panic
               THEN /\ todo' = [todo EXCEPT ![p] = @ \ {running[p].id}]
                    /\ position' = [position EXCEPT ![p] = "loop"]
                    /\ running' = [running EXCEPT ![p] = NoRun]
               ELSE /\ running' = [running EXCEPT ![p].queue = Tail(@)]
                    /\ UNCHANGED << todo, position >>
            /\ UNCHANGED phase
    /\ UNCHANGED << saves, save_uri, snapshot, diagnostics, invocations >>
    /\ UNCHANGED << env_vars, settings_vars, message_vars >>

\* Lsp::did_save after its loop: the local vector is published.
DidSaveEnd(p) ==
    /\ Serving
    /\ p \in 1..saves
    /\ holder \in {Nobody, p}
    /\ position[p] = "loop"
    /\ todo[p] = {}
    /\ publications' =
          Logged(p, publications, [by |-> "did_save", diags |-> diagnostics[p]])
    /\ published' = Publish(published, save_uri[p], diagnostics[p])
    /\ position' = [position EXCEPT ![p] = "returned"]
    /\ holder' = Nobody
    /\ UNCHANGED << phase, saves, save_uri, snapshot, todo, running, diagnostics,
                    invocations >>
    /\ UNCHANGED << env_vars, settings_vars, message_vars >>

\* The plugin ids the client may configure.
ConfiguredIds == UNION {DOMAIN parse_client_editor_settings(c) : c \in ClientConfigs}

Next ==
    \/ \E r \in RootUris : Initialize(r)
    \/ \E c \in ConfigurationAnswers : Initialized(c)
    \/ \E id \in ConfiguredIds : ResolvePlugin(id)
    \/ InsertPlugin
    \/ InitializedEnd
    \/ \E u \in SavedUris : DidSave(u)
    \/ \E p \in 1..MaxSaves : DidSaveClone(p)
    \/ \E p \in 1..MaxSaves : \E id \in AvailablePlugins : DidSavePlugin(p, id)
    \/ \E p \in 1..MaxSaves : DidSaveValidate(p)
    \/ \E p \in 1..MaxSaves : PluginRun(p)
    \/ \E p \in 1..MaxSaves : PublishNext(p)
    \/ \E p \in 1..MaxSaves : DidSaveEnd(p)

Spec == Init /\ [][Next]_vars

-----------------------------------------------------------------------------
(* The body of the message loop of run(), one message at a time            *)

\* The largest line number a message of a report carries.
MaxLine == 10

\* The values a u32 field and an i64 field of a report may hold.
UnsignedLines == 0..MaxLine
SignedLines == (0 - 1)..MaxLine
SignedColumns == {0 - 1, 0, 3}

\* The messages a report that parsed may hold, with the adapter they go to.
ReportMessages ==
    {[tool |-> "phpcs",
      phpcs |-> Deserialize(PhpcsMessageJson("X", l, c, t), PhpcsFileMessage)] :
        l \in UnsignedLines, c \in {0, 2, 5}, t \in {"ERROR", "WARNING", "NOTE"}}
    \cup {[tool |-> "phpstan",
           phpstan |-> Deserialize(PhpstanMessageJson("P", l), PhpstanFileMessage)] :
        l \in UnsignedLines}
    \cup {[tool |-> "eslint",
           eslint |-> Deserialize(EslintMessageJson("E", l, c, v), EslintFileMessage)] :
        l \in SignedLines, c \in SignedColumns, v \in 0..3}
    \cup UNION {{[tool |-> "stylelint",
                  stylelint |->
                      Deserialize(StylelintWarningJson("S", l, c, e, d, v),
                                  StylelintFileMessage)] :
                    e \in {0, l, l + 2}, c \in SignedColumns, d \in {3, 7},
                    v \in {"warning", "error", "info"}} : l \in SignedLines}

MessageInit ==
    /\ phase = "in_run"
    /\ holder = Nobody
    /\ fs = ToolEnv({}, {})
    /\ build \in Builds
    /\ debug = FALSE
    /\ root_uri = None
    /\ configuration = None
    /\ editor_plugins = EmptyMap
    /\ pending = {}
    /\ probed = None
    /\ installed_plugins = EmptyMap
    /\ saves = 0
    /\ save_uri = << >>
    /\ snapshot = << >>
    /\ todo = << >>
    /\ position = << >>
    /\ running = << >>
    /\ diagnostics = << >>
    /\ invocations = << >>
    /\ publications = << >>
    /\ published = EmptyMap
    /\ report_message \in ReportMessages
    /\ built_item = NotBuilt

\* run() is about to evaluate Diagnostic::new(..) for a message of this tool.
Converting(tool) ==
    /\ phase = "in_run"
    /\ report_message.tool = tool
    /\ built_item = NotBuilt

\* Diagnostic::new(..) is evaluated for report_message: the item is built, or
\* the evaluation panics.
PhpcsItem ==
    /\ Converting("phpcs")
    /\ built_item' = Built(PhpcsDiagnostic(report_message.phpcs, build))
    /\ IF built_item'.res.some THEN UNCHANGED phase ELSE Crash
    /\ UNCHANGED << holder, published, report_message >>
    /\ UNCHANGED << env_vars, settings_vars, pass_vars >>

PhpstanItem ==
    /\ Converting("phpstan")
    /\ built_item' = Built(PhpstanDiagnostic(report_message.phpstan, build))
    /\ IF built_item'.res.some THEN UNCHANGED phase ELSE Crash
    /\ UNCHANGED << holder, published, report_message >>
    /\ UNCHANGED << env_vars, settings_vars, pass_vars >>

EslintItem ==
    /\ Converting("eslint")
    /\ built_item' = Built(EslintDiagnostic(report_message.eslint, build))
    /\ IF built_item'.res.some THEN UNCHANGED phase ELSE Crash
    /\ UNCHANGED << holder, published, report_message >>
    /\ UNCHANGED << env_vars, settings_vars, pass_vars >>

StylelintItem ==
    /\ Converting("stylelint")
    /\ built_item' = Built(StylelintDiagnostic(report_message.stylelint, build))
    /\ IF built_item'.res.some THEN UNCHANGED phase ELSE Crash
    /\ UNCHANGED << holder, published, report_message >>
    /\ UNCHANGED << env_vars, settings_vars, pass_vars >>

MessageNext ==
    \/ PhpcsItem
    \/ PhpstanItem
    \/ EslintItem
    \/ StylelintItem

MessageSpec == MessageInit /\ [][MessageNext]_vars

-----------------------------------------------------------------------------
(* Properties                                                              *)

\* The save pass whose subprocesses and publications are recorded: the one
\* that started last.  A pass that another one overtakes goes on unrecorded;
\* what a pass invokes depends on its own uri and clone only, and every pass
\* is recorded while other passes in flight take their steps between its own.
Passes == {p \in 1..saves : p = saves}

\* Save pass p returned.
PassReturned(p) == position[p] = "returned"

\* Save pass p is over: it returned, or the process ended under it.
PassOver(p) == position[p] = "returned" \/ phase = "crashed"

\* Initialization is over.
Initialised == phase = "running"

\* The path of the file saved in pass p, when its uri names one.
SavedPath(p) == to_file_path(save_uri[p]).v

\* The extension of the file saved in pass p, when it has one that is text.
SavedExtension(p) == extension_string(save_uri[p])

\* The invocations of pass p that are for plugin id.
InvocationsOf(p, id) == {i \in 1..Len(invocations) : invocations[i].id = id}

\* The publications of pass p that plugin id made.
PublicationsOf(p, id) ==
    {i \in 1..Len(publications) : publications[i].by = id}

\* The file saved in pass p has an extension, which is one of the resolved
\* filetypes of plugin id.
ExtensionMatches(p, id) ==
    /\ SavedExtension(p).some
    /\ \E i \in 1..Len(installed_plugins[id].filetypes) :
          installed_plugins[id].filetypes[i] = SavedExtension(p).v

\* C1: once a save pass is over, every installed plugin whose resolved
\* filetypes hold the saved file's extension was invoked exactly once in it,
\* with its resolved cmd and with its resolved args followed by the path of
\* the saved file.
C1_EachMatchingPluginInvokedOnce ==
    \A p \in Passes :
        PassOver(p) =>
            \A id \in DOMAIN installed_plugins :
                ExtensionMatches(p, id) =>
                    /\ Cardinality(InvocationsOf(p, id)) = 1
                    /\ \A i \in InvocationsOf(p, id) :
                          /\ invocations[i].cmd = installed_plugins[id].cmd
                          /\ invocations[i].args =
                                installed_plugins[id].args \o << SavedPath(p) >>

\* The probe of plugin id finds the tool on this machine: its project-local
\* binary exists, or (phpcs, phpstan) its bare name starts.
Discoverable(id) ==
    \/ << "/proj", LocalBinSuffix(id) >> \in fs.files
    \/ id \in {"phpcs", "phpstan"} /\ << id >> \in fs.commands

\* C2: every subprocess of a save pass is for a plugin of the installed set,
\* whose discovery succeeded and whose resolved filetypes hold the saved
\* file's extension.
C2_InvokedOnlyIfInstalledAndMatching ==
    \A p \in Passes :
        \A i \in 1..Len(invocations) :
            /\ invocations[i].id \in DOMAIN installed_plugins
            /\ Discoverable(invocations[i].id)
            /\ ExtensionMatches(p, invocations[i].id)

\* C2 witness: a pass returned in which one installed plugin was invoked and
\* another one skipped, while a requested tool was not discovered.
C2_Witness ==
    \E p \in Passes :
        /\ PassReturned(p)
        /\ \E id \in DOMAIN installed_plugins : InvocationsOf(p, id) # {}
        /\ \E id \in DOMAIN installed_plugins :
              InvocationsOf(p, id) = {} /\ ~ExtensionMatches(p, id)
        /\ \E id \in (DOMAIN editor_plugins) \cap AvailablePlugins :
              id \notin DOMAIN installed_plugins

\* The client override of plugin id gives a non-empty filetypes string.
OverridesFiletypes(id) ==
    /\ editor_plugins[id].filetypes # << >>
    /\ editor_plugins[id].filetypes # << EmptyStr >>

\* C3: a non-empty filetypes override replaces the discovered filetypes: the
\* resolved filetypes are exactly the override's extensions, and a plugin is
\* not invoked for an extension the override leaves out.
C3_FiletypesOverrideReplaces ==
    /\ \A id \in DOMAIN installed_plugins :
          OverridesFiletypes(id) =>
              installed_plugins[id].filetypes = editor_plugins[id].filetypes
    /\ \A p \in Passes :
          \A i \in 1..Len(invocations) :
              OverridesFiletypes(invocations[i].id) =>
                  \E k \in 1..Len(editor_plugins[invocations[i].id].filetypes) :
                      editor_plugins[invocations[i].id].filetypes[k]
                         = SavedExtension(p).v

\* C4: the resolved args of every installed plugin are the discovered default
\* args, in order, followed by the tokens of the override's args, in order.
C4_ArgsOverrideAppends ==
    \A id \in DOMAIN installed_plugins :
        installed_plugins[id].args = DefaultArgs(id) \o editor_plugins[id].args

\* C4 witness: eslint, default ["-f=json"], override "--foo", is resolved to
\* ["-f=json", "--foo"].
C4_Witness ==
    /\ Initialised
    /\ "eslint" \in DOMAIN installed_plugins
    /\ editor_plugins["eslint"].args = << << "--foo" >> >>
    /\ installed_plugins["eslint"].args = << << "-f=json" >>, << "--foo" >> >>

\* The started invocations of pass p whose tool wrote to stderr.
FailedByStderr(p) ==
    {i \in 1..Len(invocations) :
        invocations[i].spawned /\ invocations[i].out.stderr # EmptyStr}

\* C5: for every adapter, an invocation whose tool wrote non-empty stderr
\* publishes no diagnostics in its pass, whatever its stdout holds.
C5_StderrPublishesNothing ==
    \A p \in Passes :
        \A i \in FailedByStderr(p) : PublicationsOf(p, invocations[i].id) = {}

\* The outputs adapter id is given that are not JSON of its report shape:
\* not JSON at all, a document whose top level is not the adapter's, one
\* whose file reports or messages lack members of the adapter's structs, or
\* one with a member of another type than the struct declares.
NotReports(id) ==
    CASE id = "phpcs"     -> {NotJson, PhpcsMinimalReport, PhpcsMistypedReport}
      [] id = "phpstan"   -> {NotJson, PhpstanFilesArrayReport}
      [] id = "eslint"    -> {NotJson, EslintMinimalReport}
      [] id = "stylelint" -> {NotJson, StylelintObjectReport}

NotReportShaped(id, stdout) == stdout \in NotReports(id)

\* The started invocations of pass p with empty stderr and a stdout that is
\* not a report.
Malformed(p) ==
    {i \in 1..Len(invocations) :
        /\ invocations[i].spawned
        /\ invocations[i].out.stderr = EmptyStr
        /\ NotReportShaped(invocations[i].id, invocations[i].out.stdout)}

\* C6: an invocation with empty stderr whose stdout is not a report of the
\* adapter's shape publishes nothing, adds nothing to the diagnostics of the
\* pass, and its iteration ends without a panic (the loop moves past it).
C6_MalformedStdoutYieldsNothing ==
    \A p \in Passes :
        \A i \in Malformed(p) :
            /\ PublicationsOf(p, invocations[i].id) = {}
            /\ diagnostics[p] = << >>
            /\ invocations[i].id \notin todo[p]

\* C6 witness: a pass returned in which a tool printed a JSON document that is
\* not its report, and another tool was invoked after it.
C6_Witness ==
    \E p \in Passes :
        /\ PassReturned(p)
        /\ \E i \in Malformed(p) :
              /\ invocations[i].out.stdout.json
              /\ i < Len(invocations)

\* C7: a command that fails to spawn does not end the server.
C7_SpawnFailureIsConfined ==
    \A p \in Passes :
        \A i \in 1..Len(invocations) :
            ~invocations[i].spawned => phase # "crashed"

\* The diagnostics that plugins other than id published during pass p.
PublishedByOthers(p, id) ==
    UNION {{publications[k].diags[n] : n \in 1..Len(publications[k].diags)} :
              k \in {j \in 1..Len(publications) :
                         publications[j].by \notin {id, "did_save"}}}

\* The diagnostics in effect for the document saved in pass p.
InEffect(p) ==
    IF save_uri[p] \in DOMAIN published
    THEN {published[save_uri[p]][n] : n \in 1..Len(published[save_uri[p]])}
    ELSE {}

\* C8: after a pass in which stylelint wrote to stderr has returned, the
\* diagnostics in effect for the document hold every diagnostic the other
\* plugins of the pass published, and stylelint published none.
C8_OtherPluginsDiagnosticsSurvive ==
    \A p \in Passes :
        (/\ PassReturned(p)
         /\ \E i \in FailedByStderr(p) : invocations[i].id = "stylelint") =>
            /\ PublishedByOthers(p, "stylelint") \subseteq InEffect(p)
            /\ PublicationsOf(p, "stylelint") = {}

\* C9: the installed set holds exactly the requested ids visited so far that
\* are in the registry and whose tool is discovered, and once initialization
\* is over every requested id was visited.
C9_InstalledSetIsDiscoveredRequests ==
    /\ DOMAIN installed_plugins =
          {id \in (DOMAIN editor_plugins) \ pending :
              id \in {"phpcs", "phpstan", "eslint", "stylelint"} /\ Discoverable(id)}
    /\ Initialised => pending = {}

\* C9 witness: initialization is over, an unknown id and an undiscovered tool
\* were requested, and another requested plugin is installed.
C9_Witness ==
    /\ Initialised
    /\ \E id \in DOMAIN editor_plugins : id \notin AvailablePlugins
    /\ \E id \in (DOMAIN editor_plugins) \cap AvailablePlugins : ~Discoverable(id)
    /\ installed_plugins # EmptyMap

\* C10: after a returned pass for a .php file in which only phpcs ran and
\* printed, with empty stderr, the report
\* {"files":{"a.php":{"messages":[{"message":"X","line":3,"column":2,"type":"ERROR"}]}}},
\* the diagnostics in effect for the document are exactly one diagnostic, at
\* line 2, column 2 (start and end), of severity Error and message "X".
C10_MinimalPhpcsReportGivesOneDiagnostic ==
    \A p \in Passes :
        ( /\ PassReturned(p)
          /\ SavedExtension(p) = Some(<< "php" >>)
          /\ Len(invocations) = 1
          /\ invocations[1].id = "phpcs"
          /\ invocations[1].spawned
          /\ invocations[1].out =
                [stderr |-> EmptyStr, stdout |-> PhpcsMinimalReport] )
        => /\ save_uri[p] \in DOMAIN published
           /\ published[save_uri[p]] = << Diagnostic(2, 2, 2, 2, "ERROR", Str("X")) >>

-----------------------------------------------------------------------------
(* Properties of the conversion of a message (MessageSpec)                 *)

\* The message of the report that was converted.
RawMessage == report_message[report_message.tool]

\* The column the message reports (phpstan reports none).
RawColumn == RawMessage.column

\* The Diagnostic the conversion built.
Item == built_item.res.v

\* C11: for every eslint, phpcs or phpstan message with raw line L >= 1, the
\* diagnostic produced is a point range (start = end) on line L - 1; its
\* column is the reported column for eslint and phpcs and the fixed sentinel
\* column for phpstan.  A diagnostic is produced whenever the reported column
\* is a column at all (not negative).
C11_PointRangeAtLineMinusOne ==
    (/\ built_item.built
     /\ report_message.tool \in {"eslint", "phpcs", "phpstan"}
     /\ RawMessage.line >= 1)
    => /\ (report_message.tool = "phpstan" \/ RawColumn >= 0) => built_item.res.some
       /\ built_item.res.some =>
            /\ Item.start = Item.end
            /\ Item.start.line = RawMessage.line - 1
            /\ Item.start.character =
                  IF report_message.tool = "phpstan" THEN PhpstanColumn ELSE RawColumn

\* An eslint message at line 5 became a diagnostic at line 4.
C11_Witness ==
    /\ built_item.built
    /\ report_message.tool = "eslint"
    /\ RawMessage.line = 5
    /\ built_item.res.some
    /\ Item.start.line = 4
    /\ Item.start.character = RawColumn

\* C12: a stylelint diagnostic starts at (line - 1, column) and ends at
\* (endLine - 1, endColumn): the end column is the reported endColumn, not the
\* start column.
C12_StylelintRangeEndsAtEndColumn ==
    (/\ built_item.built
     /\ report_message.tool = "stylelint"
     /\ RawMessage.line >= 1 /\ RawMessage.endLine >= 1
     /\ RawColumn >= 0 /\ RawMessage.endColumn >= 0)
    => /\ built_item.res.some
       /\ Item.start = [line |-> RawMessage.line - 1, character |-> RawColumn]
       /\ Item.end = [line |-> RawMessage.endLine - 1,
                      character |-> RawMessage.endColumn]

\* The severity the tool reported, in its own vocabulary.
NativeSeverity ==
    IF report_message.tool = "phpcs" THEN RawMessage.type ELSE RawMessage.severity

\* Every line and column of the message that is converted is one a position
\* can hold.
PositionsConvert ==
    /\ RawMessage.line >= 1
    /\ report_message.tool \in {"eslint", "stylelint"} => RawColumn >= 0
    /\ report_message.tool = "stylelint" => RawMessage.endLine >= 1

\* C13: the severity of a diagnostic follows the fixed table of its tool
\* (eslint 1 -> Warning, 2 -> Error; phpcs "WARNING" -> Warning, "ERROR" ->
\* Error; stylelint "warning" -> Warning, "error" -> Error; phpstan always
\* Error); every other value gives Info, and a message whose positions
\* convert yields a diagnostic whatever its severity is.
C13_SeverityTable ==
    built_item.built =>
        /\ PositionsConvert => built_item.res.some
        /\ built_item.res.some =>
             Item.severity =
                IF report_message.tool = "phpstan" THEN "ERROR"
                ELSE IF \/ report_message.tool = "eslint" /\ NativeSeverity = 1
                        \/ report_message.tool = "phpcs"
                              /\ NativeSeverity = Str("WARNING")
                        \/ report_message.tool = "stylelint"
                              /\ NativeSeverity = Str("warning")
                     THEN "WARNING"
                ELSE IF \/ report_message.tool = "eslint" /\ NativeSeverity = 2
                        \/ report_message.tool = "phpcs"
                              /\ NativeSeverity = Str("ERROR")
                        \/ report_message.tool = "stylelint"
                              /\ NativeSeverity = Str("error")
                     THEN "ERROR"
                ELSE "INFORMATION"

\* An eslint message of a severity the table does not know became an Info
\* diagnostic.
C13_Witness ==
    /\ built_item.built
    /\ report_message.tool = "eslint"
    /\ NativeSeverity = 3
    /\ built_item.res.some
    /\ Item.severity = "INFORMATION"

-----------------------------------------------------------------------------
(* Properties of the server, continued (Spec)                              *)

\* C14: the installed plugin set is written only during initialization: no
\* step of a save pass adds, removes or changes an entry, and every pass
\* that has taken its clone iterates the set that initialization built.
C14_InstalledSetWrittenOnlyByInitialization ==
    [][/\ pass_vars' # pass_vars => installed_plugins' = installed_plugins
       /\ phase' = "running" =>
             \A p \in 1..saves' :
                 position'[p] \notin {"dropped", "start"}
                    => snapshot'[p] = installed_plugins']_vars

\* The resolved settings of id carry the canonical defaults around cmd: the
\* command is cmd unless the client overrode it, the default args and the
\* default filetypes come first.
Canonical(id, cmd) ==
    LET resolved == installed_plugins[id]
    IN  /\ editor_plugins[id].cmd = EmptyStr => resolved.cmd = cmd
        /\ Len(resolved.args) >= Len(DefaultArgs(id))
        /\ SubSeq(resolved.args, 1, Len(DefaultArgs(id))) = DefaultArgs(id)
        /\ Len(resolved.filetypes) >= Len(DefaultFiletypes(id))
        /\ SubSeq(resolved.filetypes, 1, Len(DefaultFiletypes(id)))
              = DefaultFiletypes(id)

\* C15: for every adapter, discovery tries in order (1) the tool's path under
\* the project root, (2) the bare tool name started as a process, (3)
\* nothing: the tool is installed with the canonical defaults around the
\* first of (1) and (2) that succeeds, and is not installed when both fail.
C15_DiscoveryTriesLocalThenGlobal ==
    Initialised =>
        \A id \in AvailablePlugins \cap DOMAIN editor_plugins :
            IF LocalBin(id) \in fs.files
            THEN id \in DOMAIN installed_plugins /\ Canonical(id, LocalBin(id))
            ELSE IF Str(id) \in fs.commands
            THEN id \in DOMAIN installed_plugins /\ Canonical(id, Str(id))
            ELSE id \notin DOMAIN installed_plugins

\* The value the client configured under id: the one of the last item of the
\* answer that holds id.
RawValue(id) ==
    LET answer == configuration.v
        holders == {i \in 1..Len(answer) : IsObj(answer[i]) /\ id \in DOMAIN answer[i].o}
        last    == CHOOSE i \in holders : \A j \in holders : j <= i
    IN  answer[last].o[id]

\* The string an object value gives under key: empty when the key is missing
\* or holds no string.
RawString(value, key) ==
    IF key \in DOMAIN value.o
    THEN (IF value.o[key].t = "str" THEN value.o[key].s ELSE EmptyStr)
    ELSE EmptyStr

RECURSIVE Join(_, _)
\* The pieces with sep put back between them.
Join(pieces, sep) ==
    IF Len(pieces) = 1 THEN pieces[1]
    ELSE pieces[1] \o << sep >> \o Join(Tail(pieces), sep)

\* pieces is s cut at every sep: at least one piece, no piece holds sep, and
\* the pieces joined by sep give s back.
IsSplitOf(pieces, s, sep) ==
    /\ Len(pieces) >= 1
    /\ \A i \in 1..Len(pieces) : \A j \in 1..Len(pieces[i]) : pieces[i][j] # sep
    /\ Join(pieces, sep) = s

\* C16: the override of a plugin id is parsed by cutting args at every space
\* and filetypes at every comma, so that an empty or missing string gives the
\* one-element list holding the empty string, and a value that is not an
\* object gives empty lists; a plugin configured with an object that gives no
\* args is invoked with its default args, then one empty-string argument,
\* then the file path.
C16_OverrideParsing ==
    configuration.some =>
        /\ \A id \in DOMAIN editor_plugins :
              IF IsObj(RawValue(id))
              THEN /\ IsSplitOf(editor_plugins[id].args,
                                RawString(RawValue(id), "args"), " ")
                   /\ IsSplitOf(editor_plugins[id].filetypes,
                                RawString(RawValue(id), "filetypes"), ",")
                   /\ RawString(RawValue(id), "args") = EmptyStr
                        => editor_plugins[id].args = << EmptyStr >>
                   /\ RawString(RawValue(id), "filetypes") = EmptyStr
                        => editor_plugins[id].filetypes = << EmptyStr >>
              ELSE /\ editor_plugins[id].args = << >>
                   /\ editor_plugins[id].filetypes = << >>
        /\ \A p \in Passes :
              \A i \in 1..Len(invocations) :
                  (/\ IsObj(RawValue(invocations[i].id))
                   /\ RawString(RawValue(invocations[i].id), "args") = EmptyStr)
                  => invocations[i].args =
                        DefaultArgs(invocations[i].id)
                           \o << EmptyStr, FileArg(save_uri[p]) >>

\* A plugin configured with an object without args was started with the
\* empty-string argument before the file path, while another id of the same
\* answer was configured with a value that is not an object.
C16_Witness ==
    /\ configuration.some
    /\ \E p \in Passes :
          \E i \in 1..Len(invocations) :
              /\ invocations[i].spawned
              /\ IsObj(RawValue(invocations[i].id))
              /\ "args" \notin DOMAIN RawValue(invocations[i].id).o
              /\ invocations[i].args[Len(invocations[i].args) - 1] = EmptyStr
    /\ \E id \in DOMAIN editor_plugins :
          ~IsObj(RawValue(id)) /\ editor_plugins[id].args = << >>

-----------------------------------------------------------------------------
(* Properties of the conversion of a message, continued (MessageSpec)      *)

\* The columns of the message that are converted are not negative.
ColumnsConvert == report_message.tool \in {"eslint", "stylelint"} => RawColumn >= 0

\* C17: the conversion of a 1-indexed line to a zero-indexed one stays within
\* u32 for every raw line a report can carry, 0 and (where the field is
\* signed) negative values included: the item is built, the conversion does
\* not panic, and no line of the item is a wrapped-around value.
C17_LineConversionStaysInU32 ==
    (built_item.built /\ ColumnsConvert)
    => /\ built_item.res.some
       /\ phase # "crashed"
       /\ Item.start.line # U32Max
       /\ Item.end.line # U32Max

====
